---- MODULE Spec2Model ----
(***************************************************************************)
(* Model of the end user functions of pwv_kpno                             *)
(* (src/pwv_kpno/end_user_functions.py): update_models, measured_pwv,      *)
(* modeled_pwv and transmission.                                           *)
(*                                                                         *)
(* Python values are tagged records, floats are exact rationals <<n, d>>   *)
(* in lowest terms with d > 0, tables are sequences of rows.  Every call   *)
(* is one action: it records the call, the result (a value or the raised   *)
(* exception) and the sequence of I/O operations the call performed.       *)
(***************************************************************************)
EXTENDS Integers, Sequences, FiniteSets

VARIABLES
    tz,            \* UTC offset (seconds) of the local time zone
    now_year,      \* datetime.now().year
    measured_csv,  \* rows of ./pwv_tables/measured_pwv.csv
    modeled_csv,   \* rows of ./pwv_tables/modeled_pwv.csv
    atm_dir,       \* os.listdir('./atm_models') with the files' contents
    call,          \* the last call: function and arguments
    result,        \* what the last call returned or raised
    io,            \* I/O operations performed by the last call, in order
    pwv_los,       \* local variable pwv_los of the last transmission call
    repeat         \* history: the last call repeats the call before it

vars == <<tz, now_year, measured_csv, modeled_csv, atm_dir,
          call, result, io, pwv_los, repeat>>

env == <<tz, now_year, measured_csv, modeled_csv, atm_dir>>

----------------------------------------------------------------------------
(* Bounds *)

MaxRows == 2     \* rows of a PWV table
MaxFiles == 2    \* entries of the atmospheric model directory

----------------------------------------------------------------------------
(* Exact rational arithmetic standing for Python floats *)

RECURSIVE Gcd(_, _)
Gcd(a, b) == IF b = 0 THEN a ELSE Gcd(b, a % b)

Abs(n) == IF n < 0 THEN -n ELSE n

Rat(n, d) ==
    LET s == IF d < 0 THEN -1 ELSE 1
        g == Gcd(Abs(n), Abs(d))
    IN  <<(s * n) \div g, (s * d) \div g>>

R(n) == <<n, 1>>
RAdd(a, b) == Rat(a[1] * b[2] + b[1] * a[2], a[2] * b[2])
RSub(a, b) == Rat(a[1] * b[2] - b[1] * a[2], a[2] * b[2])
RMul(a, b) == Rat(a[1] * b[1], a[2] * b[2])
RDiv(a, b) == Rat(a[1] * b[2], a[2] * b[1])
RLt(a, b) == a[1] * b[2] < b[1] * a[2]
RLe(a, b) == a[1] * b[2] <= b[1] * a[2]

----------------------------------------------------------------------------
(* Python values *)

None == [t |-> "NoneType"]
PyInt(n) == [t |-> "int", v |-> n]
PyFloat(q) == [t |-> "float", q |-> q]
PyStr(s) == [t |-> "str", s |-> s]
PyDatetime(y, mo, d, h) ==
    [t |-> "datetime", year |-> y, month |-> mo, day |-> d, hour |-> h]

\* isinstance(x, int)
IsInt(x) == x.t = "int"
\* x is None
IsNone(x) == x.t = "NoneType"
\* isinstance(x, (float, int))
IsNumber(x) == x.t \in {"int", "float"}
\* isinstance(x, datetime)
IsDatetime(x) == x.t = "datetime"
\* truth value of an int-or-None argument ("if year:")
Truthy(x) == IsInt(x) /\ x.v # 0
\* a number as a rational
Num(x) == IF x.t = "int" THEN R(x.v) ELSE x.q

Ok(v) == [kind |-> "ok", value |-> v]
TypeError(arg, pos) == [kind |-> "TypeError", arg |-> arg, pos |-> pos]
ValueError(arg, pos, parent, ppos) ==
    [kind |-> "ValueError", arg |-> arg, pos |-> pos,
     parent |-> parent, ppos |-> ppos]
RangeError(msg) == [kind |-> "ValueError", msg |-> msg]
NoCall == [fn |-> "none"]
NoResult == [kind |-> "none"]

----------------------------------------------------------------------------
(* Calendar conversions of the datetime class (proleptic Gregorian) *)

\* days since 1970-01-01 of a civil date
days_from_civil(y0, m, d) ==
    LET y   == IF m <= 2 THEN y0 - 1 ELSE y0
        era == y \div 400
        yoe == y - era * 400
        mp  == IF m > 2 THEN m - 3 ELSE m + 9
        doy == (153 * mp + 2) \div 5 + d - 1
        doe == yoe * 365 + yoe \div 4 - yoe \div 100 + doy
    IN  era * 146097 + doe - 719468

\* civil date <<year, month, day>> of a day number
civil_from_days(z0) ==
    LET z   == z0 + 719468
        era == z \div 146097
        doe == z - era * 146097
        yoe == (doe - doe \div 1460 + doe \div 36524 - doe \div 146096) \div 365
        doy == doe - (365 * yoe + yoe \div 4 - yoe \div 100)
        mp  == (5 * doy + 2) \div 153
        d   == doy - (153 * mp + 2) \div 5 + 1
        m   == IF mp < 10 THEN mp + 3 ELSE mp - 9
        y   == yoe + era * 400
    IN  <<IF m <= 2 THEN y + 1 ELSE y, m, d>>

\* datetime.fromtimestamp(ts): the local calendar time of an epoch second
fromtimestamp(ts, offset) ==
    LET loc == ts + offset
        ymd == civil_from_days(loc \div 86400)
    IN  PyDatetime(ymd[1], ymd[2], ymd[3], (loc % 86400) \div 3600)

\* date.timestamp() of a naive datetime: local calendar time to epoch seconds
timestamp(date, offset) ==
    days_from_civil(date.year, date.month, date.day) * 86400
        + date.hour * 3600 - offset

----------------------------------------------------------------------------
(* measured_pwv / modeled_pwv *)

\* check_args without the check of hour against day
check_args_no_hour_dep(year, month, day, hour) ==
    IF ~(IsInt(year) \/ IsNone(year))
    THEN TypeError("year", 1)
    ELSE IF IsNone(year) /\ ~IsNone(month)
    THEN ValueError("month", 2, "year", 1)
    ELSE IF ~(IsInt(month) \/ IsNone(month))
    THEN TypeError("month", 2)
    ELSE IF IsNone(month) /\ ~IsNone(day)
    THEN ValueError("day", 3, "month", 2)
    ELSE IF ~(IsInt(day) \/ IsNone(day))
    THEN TypeError("day", 2)
    ELSE IF ~(IsInt(hour) \/ IsNone(hour))
    THEN TypeError("hour", 4)
    ELSE Ok(None)

\* The argument checks shared by measured_pwv and modeled_pwv, in the order
\* of the source: the first failing check raises.
check_args(year, month, day, hour) ==
    IF ~(IsInt(year) \/ IsNone(year))
    THEN TypeError("year", 1)
    ELSE IF IsNone(year) /\ ~IsNone(month)
    THEN ValueError("month", 2, "year", 1)
    ELSE IF ~(IsInt(month) \/ IsNone(month))
    THEN TypeError("month", 2)
    ELSE IF IsNone(month) /\ ~IsNone(day)
    THEN ValueError("day", 3, "month", 2)
    ELSE IF ~(IsInt(day) \/ IsNone(day))
    THEN TypeError("day", 2)
    ELSE IF IsNone(day) /\ ~IsNone(hour)
    THEN ValueError("hour", 4, "day", 3)
    ELSE IF ~(IsInt(hour) \/ IsNone(hour))
    THEN TypeError("hour", 4)
    ELSE Ok(None)

\* pwv_data['date'] = np.vectorize(datetime.fromtimestamp)(pwv_data['date'])
convert_dates(rows, offset) ==
    [i \in 1..Len(rows) |->
        [rows[i] EXCEPT !.date = fromtimestamp(rows[i].date, offset)]]

RECURSIVE SelectRows(_, _, _)
SelectRows(rows, indx, i) ==
    IF i > Len(rows) THEN <<>>
    ELSE (IF indx[i] THEN <<rows[i]>> ELSE <<>>) \o SelectRows(rows, indx, i + 1)

\* "Refine results to only include datetimes indicated by kwargs"
refine(pwv_data, year, month, day, hour) ==
    IF ~Truthy(year)
    THEN pwv_data
    ELSE LET indx == [i \in 1..Len(pwv_data) |->
                 /\ pwv_data[i].date.year = year.v
                 /\ (Truthy(month) => pwv_data[i].date.month = month.v)
                 /\ (Truthy(day) => pwv_data[i].date.day = day.v)
                 /\ (Truthy(hour) => pwv_data[i].date.hour = hour.v)]
         IN  SelectRows(pwv_data, indx, 1)

\* A query of one of the two master tables
pwv_query(fname, csv, year, month, day, hour) ==
    LET chk == check_args(year, month, day, hour)
        this == [fn |-> fname, year |-> year, month |-> month,
                 day |-> day, hour |-> hour]
    IN  /\ call' = this
        /\ repeat' = (call = this)
        /\ IF chk.kind # "ok"
           THEN /\ result' = chk
                /\ io' = <<>>
           ELSE /\ result' = Ok(refine(convert_dates(csv, tz),
                                       year, month, day, hour))
                /\ io' = <<[op |-> "read", file |-> fname \o ".csv"]>>
        /\ pwv_los' = None
        /\ UNCHANGED env

measured_pwv(year, month, day, hour) ==
    pwv_query("measured_pwv", measured_csv, year, month, day, hour)

modeled_pwv(year, month, day, hour) ==
    pwv_query("modeled_pwv", modeled_csv, year, month, day, hour)

----------------------------------------------------------------------------
(* numpy.interp(x, xp, fp) for a scalar x, as numpy computes it: the index *)
(* of the interval is searched for assuming xp is increasing (numpy does   *)
(* not check it), then the value is taken on the chord of that interval.   *)

RECURSIVE linear_search(_, _, _)
linear_search(key, arr, i) ==
    IF i <= Len(arr) /\ RLe(arr[i], key)
    THEN linear_search(key, arr, i + 1)
    ELSE i - 1

RECURSIVE bisect(_, _, _, _)
bisect(key, arr, imin, imax) ==
    IF imin < imax
    THEN LET imid == imin + ((imax - imin) \div 2)
         IN  IF RLe(arr[imid + 1], key)
             THEN bisect(key, arr, imid + 1, imax)
             ELSE bisect(key, arr, imin, imid)
    ELSE imin - 1

\* binary_search_with_guess(key, arr, len, guess = 0); 0-based result,
\* -1 when key is left of arr[0] and len when it is right of arr[len-1]
binary_search(key, arr) ==
    LET len == Len(arr)
    IN  IF RLt(arr[len], key) THEN len
        ELSE IF RLt(key, arr[1]) THEN -1
        ELSE IF len <= 4 THEN linear_search(key, arr, 2) - 1
        ELSE IF RLt(key, arr[2])
             THEN (IF RLt(key, arr[1]) THEN bisect(key, arr, 0, 0) ELSE 0)
        ELSE IF RLt(key, arr[3]) THEN 1
        ELSE IF RLt(key, arr[4]) THEN 2
        ELSE bisect(key, arr, 3, len)

np_interp(x, xp, fp) ==
    LET n == Len(xp)
        j == binary_search(x, xp)
    IN  IF n = 1
        THEN fp[1]
        ELSE IF j = -1 THEN fp[1]
        ELSE IF j = n THEN fp[n]
        ELSE IF j = n - 1 THEN fp[n]
        ELSE IF xp[j + 1] = x THEN fp[j + 1]
        ELSE LET slope == RDiv(RSub(fp[j + 2], fp[j + 1]),
                               RSub(xp[j + 2], xp[j + 1]))
             IN  RAdd(RMul(slope, RSub(x, xp[j + 1])), fp[j + 1])

----------------------------------------------------------------------------
(* transmission *)

IndexError == [kind |-> "IndexError"]

\* file.endswith('.csv'): the name is kept as its '_'-separated parts
endswith_csv(file) == file.name[Len(file.name)] \in {"kpno.csv"}

\* float(os.path.basename(file).split("_")[3])
float(s) ==
    CASE s = "4.0" -> R(4)
      [] s = "6.0" -> R(6)
      [] s = "8.0" -> R(8)

pwv_value_of(file) == float(file.name[4])

\* atm_mods[key] = tbl on a dict kept as a sequence of entries in key order
\* of first insertion
dict_set(d, key, tbl) ==
    IF \E k \in 1..Len(d) : d[k].key = key
    THEN [k \in 1..Len(d) |->
             IF d[k].key = key THEN [key |-> key, tbl |-> tbl] ELSE d[k]]
    ELSE Append(d, [key |-> key, tbl |-> tbl])

\* "Read in the atmospheric models from file"
RECURSIVE load_atm_mods(_, _, _)
load_atm_mods(listing, i, acc) ==
    IF i > Len(listing) THEN acc
    ELSE IF endswith_csv(listing[i])
    THEN load_atm_mods(listing, i + 1,
             dict_set(acc, pwv_value_of(listing[i]), listing[i].tbl))
    ELSE load_atm_mods(listing, i + 1, acc)

RECURSIVE atm_io(_, _)
atm_io(listing, i) ==
    IF i > Len(listing) THEN <<>>
    ELSE (IF endswith_csv(listing[i])
          THEN <<[op |-> "read", file |-> listing[i].name[4]]>>
          ELSE <<>>) \o atm_io(listing, i + 1)

\* min(atm_mods.keys())
min_key(atm_mods) ==
    LET keys == {atm_mods[k].key : k \in 1..Len(atm_mods)}
    IN  CHOOSE m \in keys : \A o \in keys : RLe(m, o)

dict_get(atm_mods, key) ==
    atm_mods[CHOOSE k \in 1..Len(atm_mods) : atm_mods[k].key = key].tbl

\* los_pwv without the scaling by the airmass
los_pwv_zenith(pwv_model, ts, airmass) ==
    LET xp    == [i \in 1..Len(pwv_model) |-> R(pwv_model[i].date)]
        fp    == [i \in 1..Len(pwv_model) |-> pwv_model[i].pwv]
    IN  np_interp(R(ts), xp, fp)

\* "Determine the PWV level at zenith" and "along line of sight"
los_pwv(pwv_model, ts, airmass) ==
    LET xp    == [i \in 1..Len(pwv_model) |-> R(pwv_model[i].date)]
        fp    == [i \in 1..Len(pwv_model) |-> pwv_model[i].pwv]
        pwv_z == np_interp(R(ts), xp, fp)
    IN  RMul(pwv_z, Num(airmass))

\* calc_trans_func taking the wavelengths of the first model loaded
calc_trans_func_first_grid(atm_mods, los) ==
    LET wavelengths == atm_mods[1].tbl.wavelength
        keys == [k \in 1..Len(atm_mods) |-> atm_mods[k].key]
    IN  IF \E i \in 1..Len(wavelengths) : \E k \in 1..Len(atm_mods) :
               i > Len(atm_mods[k].tbl.transmission)
        THEN IndexError
        ELSE Ok([i \in 1..Len(wavelengths) |->
                 LET trans == [k \in 1..Len(atm_mods) |->
                                  atm_mods[k].tbl.transmission[i]]
                 IN  [wavelength |-> wavelengths[i],
                      transmission |-> np_interp(los, keys, trans)]])

\* "Calculate the transmission function"
calc_trans_func(atm_mods, los) ==
    LET wavelengths == dict_get(atm_mods, min_key(atm_mods)).wavelength
        keys == [k \in 1..Len(atm_mods) |-> atm_mods[k].key]
    IN  IF \E i \in 1..Len(wavelengths) : \E k \in 1..Len(atm_mods) :
               i > Len(atm_mods[k].tbl.transmission)
        THEN IndexError
        ELSE Ok([i \in 1..Len(wavelengths) |->
                 LET trans == [k \in 1..Len(atm_mods) |->
                                  atm_mods[k].tbl.transmission[i]]
                 IN  [wavelength |-> wavelengths[i],
                      transmission |-> np_interp(los, keys, trans)]])

\* transmission reading the PWV model before it checks its arguments
transmission_reads_first(date, airmass) ==
    /\ call' = [fn |-> "transmission", date |-> date, airmass |-> airmass]
    /\ repeat' = (call = [fn |-> "transmission", date |-> date,
                          airmass |-> airmass])
    /\ IF ~IsDatetime(date)
       THEN /\ result' = TypeError("date", 1)
            /\ io' = <<[op |-> "read", file |-> "modeled_pwv.csv"]>>
            /\ pwv_los' = None
       ELSE IF ~IsNumber(airmass)
       THEN /\ result' = TypeError("airmass", 2)
            /\ io' = <<[op |-> "read", file |-> "modeled_pwv.csv"]>>
            /\ pwv_los' = None
       ELSE LET los == los_pwv(modeled_csv, timestamp(date, tz), airmass)
                atm_mods == load_atm_mods(atm_dir, 1, <<>>)
            IN  /\ pwv_los' = PyFloat(los)
                /\ io' = <<[op |-> "read", file |-> "modeled_pwv.csv"],
                           [op |-> "listdir", file |-> "atm_models"]>>
                          \o atm_io(atm_dir, 1)
                /\ result' = calc_trans_func(atm_mods, los)
    /\ UNCHANGED env

\* transmission scaling the stored PWV model by the airmass in place
transmission_scales_table(date, airmass) ==
    /\ call' = [fn |-> "transmission", date |-> date, airmass |-> airmass]
    /\ repeat' = (call = [fn |-> "transmission", date |-> date,
                          airmass |-> airmass])
    /\ IF ~IsDatetime(date)
       THEN /\ result' = TypeError("date", 1)
            /\ io' = <<>>
            /\ pwv_los' = None
            /\ UNCHANGED modeled_csv
       ELSE IF ~IsNumber(airmass)
       THEN /\ result' = TypeError("airmass", 2)
            /\ io' = <<>>
            /\ pwv_los' = None
            /\ UNCHANGED modeled_csv
       ELSE LET los == los_pwv(modeled_csv, timestamp(date, tz), airmass)
                atm_mods == load_atm_mods(atm_dir, 1, <<>>)
            IN  /\ pwv_los' = PyFloat(los)
                /\ io' = <<[op |-> "read", file |-> "modeled_pwv.csv"],
                           [op |-> "listdir", file |-> "atm_models"]>>
                          \o atm_io(atm_dir, 1)
                /\ result' = calc_trans_func(atm_mods, los)
                /\ modeled_csv' = [i \in 1..Len(modeled_csv) |->
                       [modeled_csv[i] EXCEPT
                           !.pwv = RMul(@, Num(airmass))]]
    /\ UNCHANGED <<tz, now_year, measured_csv, atm_dir>>

transmission(date, airmass) ==
    /\ call' = [fn |-> "transmission", date |-> date, airmass |-> airmass]
    /\ repeat' = (call = [fn |-> "transmission", date |-> date,
                          airmass |-> airmass])
    /\ IF ~IsDatetime(date)
       THEN /\ result' = TypeError("date", 1)
            /\ io' = <<>>
            /\ pwv_los' = None
       ELSE IF ~IsNumber(airmass)
       THEN /\ result' = TypeError("airmass", 2)
            /\ io' = <<>>
            /\ pwv_los' = None
       ELSE LET los == los_pwv(modeled_csv, timestamp(date, tz), airmass)
                atm_mods == load_atm_mods(atm_dir, 1, <<>>)
            IN  /\ pwv_los' = PyFloat(los)
                /\ io' = <<[op |-> "read", file |-> "modeled_pwv.csv"],
                           [op |-> "listdir", file |-> "atm_models"]>>
                          \o atm_io(atm_dir, 1)
                /\ result' = calc_trans_func(atm_mods, los)
    /\ UNCHANGED env

----------------------------------------------------------------------------
(* update_models *)

\* "Cannot update models for years prior to 2010"
FirstYear == 2010

\* update_models without the check against the current year
update_models_no_upper(year, updated_years) ==
    /\ call' = [fn |-> "update_models", year |-> year]
    /\ repeat' = (call = [fn |-> "update_models", year |-> year])
    /\ IF ~(IsInt(year) \/ IsNone(year))
       THEN /\ result' = TypeError("year", 1)
            /\ io' = <<>>
       ELSE IF IsInt(year) /\ year.v < FirstYear
       THEN /\ result' = RangeError("prior to 2010")
            /\ io' = <<>>
       ELSE /\ result' = Ok(updated_years)
            /\ io' = <<[op |-> "_update_suomi_data", year |-> year,
                        returned |-> updated_years],
                       [op |-> "_update_pwv_model"]>>
    /\ pwv_los' = None
    /\ UNCHANGED env

update_models(year, updated_years) ==
    /\ call' = [fn |-> "update_models", year |-> year]
    /\ repeat' = (call = [fn |-> "update_models", year |-> year])
    /\ IF ~(IsInt(year) \/ IsNone(year))
       THEN /\ result' = TypeError("year", 1)
            /\ io' = <<>>
       ELSE IF IsInt(year) /\ year.v < FirstYear
       THEN /\ result' = RangeError("prior to 2010")
            /\ io' = <<>>
       ELSE IF IsInt(year) /\ year.v > now_year
       THEN /\ result' = RangeError("greater than current year")
            /\ io' = <<>>
       ELSE /\ result' = Ok(updated_years)
            /\ io' = <<[op |-> "_update_suomi_data", year |-> year,
                        returned |-> updated_years],
                       [op |-> "_update_pwv_model"]>>
    /\ pwv_los' = None
    /\ UNCHANGED env

\* datetime.now().year changes when a year ends
new_year ==
    /\ now_year < 2019
    /\ now_year' = now_year + 1
    /\ UNCHANGED <<tz, measured_csv, modeled_csv, atm_dir,
                   call, result, io, pwv_los, repeat>>

----------------------------------------------------------------------------
(* Environments and arguments the calls are checked on *)

\* 2011-01-01 00:00 UTC, 2011-01-01 07:00 UTC, 2011-02-01 00:00 UTC
TimeSet == {1293840000, 1293865200, 1296518400}
\* UTC and Mountain Standard Time
TimeZones == {0, -25200}

Ascending(rows) == \A i \in 1..(Len(rows) - 1) : rows[i].date < rows[i + 1].date

TablesOver(Rows) ==
    {s \in UNION {[1..n -> Rows] : n \in 1..MaxRows} : Ascending(s)}

ModeledTables == TablesOver([date : TimeSet, pwv : {R(3), R(7)}])
MeasuredTables == TablesOver([date : TimeSet, KITT : {R(2)}])

\* the wavelength grid and a grid shifted in its second sample
Grids == {<<7000, 7001>>, <<7000, 7002>>}

\* transmission of each PWV level at the two wavelengths
TransmissionAt(lv) ==
    CASE lv = "4.0" -> <<Rat(9, 10), Rat(8, 10)>>
      [] lv = "6.0" -> <<Rat(7, 10), Rat(6, 10)>>
      [] lv = "8.0" -> <<Rat(5, 10), Rat(3, 10)>>

CsvFiles ==
    { [name |-> <<"atm", "trans", "mod", lv, "kpno.csv">>,
       tbl |-> [wavelength |-> g, transmission |-> TransmissionAt(lv)]] :
        lv \in {"4.0", "6.0", "8.0"}, g \in Grids }
OtherFiles == { [name |-> <<"README.txt">>, tbl |-> <<>>] }

\* directory listings: distinct file names in any order, at least one model
Listings ==
    {s \in UNION {[1..n -> CsvFiles \cup OtherFiles] : n \in 1..MaxFiles} :
        /\ \A i, j \in 1..Len(s) : s[i].name = s[j].name => i = j
        /\ \E i \in 1..Len(s) : endswith_csv(s[i])}

DefaultTable == <<[date |-> 1293840000, pwv |-> R(3)]>>
DefaultMeasured == <<[date |-> 1293840000, KITT |-> R(2)]>>
DefaultListing ==
    <<[name |-> <<"atm", "trans", "mod", "4.0", "kpno.csv">>,
       tbl |-> [wavelength |-> <<7000, 7001>>,
                transmission |-> <<Rat(9, 10), Rat(8, 10)>>]]>>

YearArgs == {None, PyInt(2011), PyStr("2011")}
MonthArgs == {None, PyInt(1), PyStr("1")}
DayArgs == {None, PyInt(1), PyFloat(Rat(3, 2))}
HourArgs == {None, PyInt(0), PyInt(7), PyStr("0")}

DateArgs ==
    { PyDatetime(2010, 12, 31, 12), PyDatetime(2011, 1, 1, 0),
      PyDatetime(2011, 1, 1, 3), PyDatetime(2011, 3, 1, 0),
      PyStr("2011-01-01") }
AirmassArgs == {PyInt(1), PyInt(2), PyFloat(Rat(3, 2)), PyStr("1.5")}

UpdateArgs ==
    {None, PyStr("2011"), PyFloat(Rat(4023, 2))} \cup {PyInt(y) : y \in 2008..2020}
UpdatedLists == {<<>>, <<2016>>, <<2017>>, <<2017, 2018>>}

----------------------------------------------------------------------------
(* Specifications *)

NoCallYet ==
    /\ call = NoCall
    /\ result = NoResult
    /\ io = <<>>
    /\ pwv_los = None
    /\ repeat = FALSE

\* the queries of the two master tables
InitFilter ==
    /\ tz \in TimeZones
    /\ now_year = 2017
    /\ measured_csv \in MeasuredTables
    /\ modeled_csv \in {t \in ModeledTables : \A i \in 1..Len(t) : t[i].pwv = R(3)}
    /\ atm_dir = DefaultListing
    /\ NoCallYet

NextFilter ==
    \/ \E y \in YearArgs, m \in MonthArgs, d \in DayArgs, h \in HourArgs :
            measured_pwv(y, m, d, h)
    \/ \E y \in YearArgs, m \in MonthArgs, d \in DayArgs, h \in HourArgs :
            modeled_pwv(y, m, d, h)

SpecFilter == InitFilter /\ [][NextFilter]_vars

\* transmission over every PWV model and model directory
InitTrans ==
    /\ tz \in TimeZones
    /\ now_year = 2017
    /\ measured_csv = DefaultMeasured
    /\ modeled_csv \in ModeledTables
    /\ atm_dir \in Listings
    /\ NoCallYet

NextTrans ==
    \E date \in DateArgs, airmass \in AirmassArgs : transmission(date, airmass)

SpecTrans == InitTrans /\ [][NextTrans]_vars

\* update_models over the years
InitUpdate ==
    /\ tz = 0
    /\ now_year \in 2017..2018
    /\ measured_csv = DefaultMeasured
    /\ modeled_csv = DefaultTable
    /\ atm_dir = DefaultListing
    /\ NoCallYet

NextUpdate ==
    \/ \E year \in UpdateArgs, l \in UpdatedLists : update_models(year, l)
    \/ new_year

SpecUpdate == InitUpdate /\ [][NextUpdate]_vars

\* every function of the module on one installation
Init ==
    /\ tz \in TimeZones
    /\ now_year = 2017
    /\ measured_csv = DefaultMeasured
    /\ modeled_csv \in {DefaultTable}
    /\ atm_dir \in {l \in Listings : Len(l) = 1}
    /\ NoCallYet

Next ==
    \/ \E y \in YearArgs, m \in MonthArgs, d \in DayArgs, h \in HourArgs :
            measured_pwv(y, m, d, h)
    \/ \E y \in YearArgs, m \in MonthArgs, d \in DayArgs, h \in HourArgs :
            modeled_pwv(y, m, d, h)
    \/ \E date \in DateArgs, airmass \in AirmassArgs : transmission(date, airmass)
    \/ \E year \in UpdateArgs, l \in UpdatedLists : update_models(year, l)
    \/ new_year

Spec == Init /\ [][Next]_vars

----------------------------------------------------------------------------
(* Properties of measured_pwv / modeled_pwv *)

IsFilterCall == call.fn \in {"measured_pwv", "modeled_pwv"}

IntOrNone(x) == IsInt(x) \/ IsNone(x)
Given(x) == ~IsNone(x)

AllIntOrNone(c) ==
    IntOrNone(c.year) /\ IntOrNone(c.month) /\ IntOrNone(c.day) /\ IntOrNone(c.hour)

\* <<field, parent>> pairs of the fields given without their parent
UnmetDependencies(c) ==
    {p \in {<<"month", "year">>, <<"day", "month">>, <<"hour", "day">>} :
        Given(c[p[1]]) /\ IsNone(c[p[2]])}

ChainRespected(c) == UnmetDependencies(c) = {}

ArgPos(name) ==
    CASE name = "year" -> 1 [] name = "month" -> 2
      [] name = "day" -> 3 [] name = "hour" -> 4

\* the table the call reads, with its dates converted
SourceRows ==
    convert_dates(IF call.fn = "measured_pwv" THEN measured_csv ELSE modeled_csv,
                  tz)

FieldMatches(row, c) ==
    /\ Given(c.year) => row.date.year = c.year.v
    /\ Given(c.month) => row.date.month = c.month.v
    /\ Given(c.day) => row.date.day = c.day.v
    /\ Given(c.hour) => row.date.hour = c.hour.v

\* s is the subsequence of rows made of the rows matching every given field
IsMatchingSubsequence(s, rows, c) ==
    LET keep == {i \in 1..Len(rows) : FieldMatches(rows[i], c)}
    IN  /\ Len(s) = Cardinality(keep)
        /\ \A i \in keep :
              s[Cardinality({j \in keep : j <= i})] = rows[i]

\* C1: for integer-or-absent fields respecting the dependency chain the
\* query returns exactly the rows whose date equals every supplied field,
\* in their original order (the whole table when no field is supplied),
\* also for a supplied value of 0.
C1_FilterExact ==
    (IsFilterCall /\ AllIntOrNone(call) /\ ChainRespected(call))
        => /\ result.kind = "ok"
           /\ IsMatchingSubsequence(result.value, SourceRows, call)

\* C2 as stated: a field given without its parent always raises ValueError
\* naming such a field and its missing parent; integer fields respecting
\* the chain raise no ValueError.
C2_DependencyAlways ==
    IsFilterCall =>
        /\ ~ChainRespected(call) =>
               /\ result.kind = "ValueError"
               /\ <<result.arg, result.parent>> \in UnmetDependencies(call)
               /\ result.pos = ArgPos(result.arg)
               /\ result.ppos = ArgPos(result.parent)
        /\ (AllIntOrNone(call) /\ ChainRespected(call)) =>
               result.kind # "ValueError"

\* year, then month, are type-checked before the dependencies after them
NoEarlierTypeError(c) ==
    /\ IntOrNone(c.year)
    /\ ~IntOrNone(c.month) => IsNone(c.year)

FirstUnmet(c) ==
    IF <<"month", "year">> \in UnmetDependencies(c) THEN <<"month", "year">>
    ELSE IF <<"day", "month">> \in UnmetDependencies(c) THEN <<"day", "month">>
    ELSE <<"hour", "day">>

\* C2 (amended): a field given without its parent raises ValueError naming
\* the first unmet dependency (in the order month, day, hour) and its
\* missing parent, unless year is a non-integer, or month is a non-integer
\* given with a year: the arguments are checked in the order year, month,
\* day, hour and those raise TypeError first.  Integer fields respecting
\* the chain raise no ValueError.
C2_DependencyInOrder ==
    IsFilterCall =>
        /\ (~ChainRespected(call) /\ NoEarlierTypeError(call)) =>
               /\ result.kind = "ValueError"
               /\ <<result.arg, result.parent>> = FirstUnmet(call)
               /\ result.pos = ArgPos(result.arg)
               /\ result.ppos = ArgPos(result.parent)
        /\ (~ChainRespected(call) /\ ~NoEarlierTypeError(call)) =>
               result.kind = "TypeError"
        /\ (AllIntOrNone(call) /\ ChainRespected(call)) =>
               result.kind # "ValueError"

\* an hour is given without a day (year and month are integers) and the
\* call raised the ValueError naming hour and day
C2_Witness ==
    /\ IsFilterCall
    /\ IsInt(call.year) /\ IsInt(call.month)
    /\ IsNone(call.day) /\ Given(call.hour)
    /\ result = ValueError("hour", 4, "day", 3)

\* C3: a non-integer year, month, day or hour raises TypeError whatever
\* the other arguments are, and the error names a non-integer argument
\* with its position.
C3_TypeErrorAlways ==
    (IsFilterCall /\ ~AllIntOrNone(call)) =>
        /\ result.kind = "TypeError"
        /\ ~IntOrNone(call[result.arg])
        /\ result.pos = ArgPos(result.arg)

----------------------------------------------------------------------------
(* Fail-fast argument checks *)

IsArgumentError == result.kind \in {"TypeError", "ValueError"}

ReadsData ==
    \E k \in 1..Len(io) : io[k].op \in {"read", "listdir"}

\* C4: in transmission, measured_pwv and modeled_pwv an argument error is
\* raised before any table or reference curve is read; transmission with a
\* non-datetime date or a non-numeric airmass raises it and reads neither
\* the modeled PWV table nor the model directory.
C4_FailFast ==
    /\ (call.fn \in {"transmission", "measured_pwv", "modeled_pwv"}
            /\ IsArgumentError)
          => io = <<>>
    /\ (IsFilterCall /\ ~(AllIntOrNone(call) /\ ChainRespected(call)))
          => (IsArgumentError /\ ~ReadsData)
    /\ (call.fn = "transmission"
            /\ (~IsDatetime(call.date) \/ ~IsNumber(call.airmass)))
          => (result.kind = "TypeError" /\ ~ReadsData)

\* transmission was called with a datetime and a non-numeric airmass
C4_Witness ==
    /\ call.fn = "transmission"
    /\ IsDatetime(call.date) /\ ~IsNumber(call.airmass)
    /\ result = TypeError("airmass", 2)

----------------------------------------------------------------------------
(* Properties of update_models *)

UpdateRejected(year, now) ==
    IF ~IntOrNone(year) THEN "TypeError"
    ELSE IF IsInt(year) /\ (year.v < 2010 \/ year.v > now) THEN "ValueError"
    ELSE "ok"

\* C5: update_models raises TypeError for a year that is neither an integer
\* nor absent, ValueError for an integer year below 2010 or above the
\* current year, and then performs neither update; otherwise the data
\* update runs, then the model update, and the list of the data update is
\* returned.
C5_UpdateModels ==
    [][(call'.fn = "update_models" /\ now_year' = now_year) =>
          LET verdict == UpdateRejected(call'.year, now_year)
          IN  /\ result'.kind = verdict
              /\ verdict # "ok" => io' = <<>>
              /\ verdict = "ok" =>
                    /\ Len(io') = 2
                    /\ io'[1].op = "_update_suomi_data"
                    /\ io'[1].year = call'.year
                    /\ io'[2].op = "_update_pwv_model"
                    /\ result'.value = io'[1].returned]_vars

\* update_models(current year) ran both updates and returned a list
C5_Witness ==
    /\ call.fn = "update_models"
    /\ IsInt(call.year) /\ call.year.v = now_year
    /\ result.kind = "ok" /\ result.value # <<>>
    /\ Len(io) = 2

----------------------------------------------------------------------------
(* Properties of transmission *)

IsTransmissionRun ==
    call.fn = "transmission" /\ IsDatetime(call.date) /\ IsNumber(call.airmass)

QueryTime == timestamp(call.date, tz)

\* piecewise-linear interpolation of the PWV series, flat outside its range
ZenithPwv(series, x) ==
    LET n == Len(series)
    IN  IF x <= series[1].date THEN series[1].pwv
        ELSE IF x >= series[n].date THEN series[n].pwv
        ELSE LET i == CHOOSE k \in 1..(n - 1) :
                          series[k].date <= x /\ x < series[k + 1].date
                 a == series[i]
                 b == series[i + 1]
             IN  RAdd(a.pwv,
                      RDiv(RMul(RSub(b.pwv, a.pwv), R(x - a.date)),
                           R(b.date - a.date)))

\* C6: the line-of-sight PWV of transmission is the airmass times the
\* piecewise-linear interpolation of the (ascending) PWV series at the
\* query timestamp, clamped to the first and last samples outside the
\* series.
C6_LineOfSight ==
    IsTransmissionRun =>
        pwv_los = PyFloat(RMul(Num(call.airmass), ZenithPwv(modeled_csv, QueryTime)))

\* the query lies strictly between two samples of different value
C6_WitnessInside ==
    /\ IsTransmissionRun
    /\ \E i \in 1..(Len(modeled_csv) - 1) :
          /\ modeled_csv[i].date < QueryTime
          /\ QueryTime < modeled_csv[i + 1].date
          /\ modeled_csv[i].pwv # modeled_csv[i + 1].pwv
    /\ Num(call.airmass) # R(1)
    /\ pwv_los.q \notin {RMul(Num(call.airmass), modeled_csv[i].pwv) :
                              i \in 1..Len(modeled_csv)}

\* the reference curve set: level -> curve, whatever the order of the files
ModelFiles == {atm_dir[k] : k \in {j \in 1..Len(atm_dir) : endswith_csv(atm_dir[j])}}
Levels == {pwv_value_of(f) : f \in ModelFiles}
CurveOf(level) == (CHOOSE f \in ModelFiles : pwv_value_of(f) = level).tbl
MinLevel == CHOOSE m \in Levels : \A o \in Levels : RLe(m, o)
MaxLevel == CHOOSE m \in Levels : \A o \in Levels : RLe(o, m)
SharedGrid == \A f, g \in ModelFiles : f.tbl.wavelength = g.tbl.wavelength

Los == pwv_los.q

\* the levels bracketing the line-of-sight PWV
LevelBelow == CHOOSE m \in {l \in Levels : RLe(l, Los)} :
                  \A o \in {l \in Levels : RLe(l, Los)} : RLe(o, m)
LevelAbove == CHOOSE m \in {l \in Levels : RLe(Los, l)} :
                  \A o \in {l \in Levels : RLe(Los, l)} : RLe(m, o)

Between(a, b, i) ==
    IF a = b THEN CurveOf(a).transmission[i]
    ELSE RAdd(CurveOf(a).transmission[i],
              RDiv(RMul(RSub(CurveOf(b).transmission[i],
                             CurveOf(a).transmission[i]),
                        RSub(Los, a)),
                   RSub(b, a)))

\* C7: with a shared wavelength grid and a line-of-sight PWV between the
\* minimum and maximum reference levels, the transmission at each
\* wavelength index is the linear interpolation across PWV level of the
\* two reference curves bracketing the line-of-sight PWV, for every order
\* in which the reference curves are enumerated.
C7_InterpolatesAcrossLevels ==
    (IsTransmissionRun /\ SharedGrid
        /\ RLe(MinLevel, Los) /\ RLe(Los, MaxLevel))
      => /\ result.kind = "ok"
         /\ \A i \in 1..Len(result.value) :
               result.value[i].transmission = Between(LevelBelow, LevelAbove, i)

\* C8: below the minimum reference level the result is the curve of the
\* minimum level, above the maximum level the curve of the maximum level,
\* and with a single level that level's curve.
C8_FlatOutsideLevels ==
    IsTransmissionRun =>
        LET same(level) ==
                /\ result.kind = "ok"
                /\ [i \in 1..Len(result.value) |-> result.value[i].transmission]
                      = CurveOf(level).transmission
        IN  /\ RLt(Los, MinLevel) => same(MinLevel)
            /\ RLt(MaxLevel, Los) => same(MaxLevel)
            /\ Cardinality(Levels) = 1 => same(MinLevel)

\* C9: the curve returned has one row per sample of the wavelength grid of
\* the reference curve with the smallest PWV level, with the wavelengths
\* copied unchanged in the same order.
C9_WavelengthGrid ==
    (IsTransmissionRun /\ result.kind = "ok") =>
        [i \in 1..Len(result.value) |-> result.value[i].wavelength]
            = CurveOf(MinLevel).wavelength

\* two reference curves were loaded, the one of the smallest level last
C9_Witness ==
    /\ IsTransmissionRun /\ result.kind = "ok"
    /\ Cardinality(Levels) >= 2
    /\ pwv_value_of(atm_dir[Len(atm_dir)]) = MinLevel
    /\ Len(result.value) = 2

====
